---- MODULE Spec2Model ----
(***************************************************************************)
(* Model of the Pezkuwi wallet configuration merger:                       *)
(*   scripts/merge-chains.py    (filtered chain merge, per-version fan-out) *)
(*   scripts/sync_from_nova.py  (chains, XCM, icons and global config sync) *)
(*                                                                         *)
(* Python str values are modelled as sequences of one-character strings so *)
(* that `in` (substring), lower() and f-string concatenation are computed, *)
(* not assumed.  Python dicts are functions over a set of keys, lists are   *)
(* sequences.                                                              *)
(***************************************************************************)
EXTENDS Integers, Sequences, FiniteSets, TLC

VARIABLES
    chain, verdict,                                   \* is_chain_excluded call
    nova_chains, pezkuwi_chains, filter_broken, call, \* collection merge calls
    result,
    nova_xcm, pezkuwi_xcm, merged_xcm, xcm_pc,        \* merge_xcm call
    program, args, pc, fs, unwritable, todo, last,    \* a run of one of the scripts
    completed, icons_out0

classifyVars == <<chain, verdict>>
mergeVars == <<nova_chains, pezkuwi_chains, filter_broken, call, result>>
xcmVars == <<nova_xcm, pezkuwi_xcm, merged_xcm, xcm_pc>>
runVars == <<program, args, pc, fs, unwritable, todo, last, completed, icons_out0>>
vars == <<classifyVars, mergeVars, xcmVars, runVars>>

NoArgs == [update |-> FALSE, full |-> FALSE, all |-> FALSE, version |-> ""]
NoCall == [version |-> "", ret |-> FALSE, raised |-> FALSE]

RunIdle ==
    /\ program = "none"
    /\ args = NoArgs
    /\ pc = "idle"
    /\ fs = <<>>
    /\ unwritable = {}
    /\ todo = <<>>
    /\ last = NoCall
    /\ completed = {}
    /\ icons_out0 = <<>>

-----------------------------------------------------------------------------
(* Python str as a sequence of characters *)

UpperToLower ==
    [c \in {"A","B","C","D","E","F","G","H","I","J","K","L","M",
            "N","O","P","Q","R","S","T","U","V","W","X","Y","Z"} |->
        CASE c = "A" -> "a" [] c = "B" -> "b" [] c = "C" -> "c" [] c = "D" -> "d"
          [] c = "E" -> "e" [] c = "F" -> "f" [] c = "G" -> "g" [] c = "H" -> "h"
          [] c = "I" -> "i" [] c = "J" -> "j" [] c = "K" -> "k" [] c = "L" -> "l"
          [] c = "M" -> "m" [] c = "N" -> "n" [] c = "O" -> "o" [] c = "P" -> "p"
          [] c = "Q" -> "q" [] c = "R" -> "r" [] c = "S" -> "s" [] c = "T" -> "t"
          [] c = "U" -> "u" [] c = "V" -> "v" [] c = "W" -> "w" [] c = "X" -> "x"
          [] c = "Y" -> "y" [] c = "Z" -> "z"]

\* str.lower()
lower(s) ==
    [i \in 1..Len(s) |-> IF s[i] \in DOMAIN UpperToLower THEN UpperToLower[s[i]] ELSE s[i]]

\* `sub in s` for two str values
StrIn(sub, s) ==
    \E i \in 0..(Len(s) - Len(sub)) : SubSeq(s, i + 1, i + Len(sub)) = sub

\* `x in lst` for a list
ListIn(x, lst) == \E i \in 1..Len(lst) : lst[i] = x

\* dict.get(key, default)
Get(d, key, default) == IF key \in DOMAIN d THEN d[key] ELSE default

S_PAUSED == <<"P","A","U","S","E","D">>
S_testnet == <<"t","e","s","t","n","e","t">>
S_pezkuwi == <<"p","e","z","k","u","w","i">>
S_zagros == <<"z","a","g","r","o","s">>
S_brokenRPC == <<"b","r","o","k","e","n"," ","R","P","C">>
S_brokenOpen == <<"b","r","o","k","e","n"," ","(">>
S_close == <<")">>
S_Unknown == <<"U","n","k","n","o","w","n">>
S_empty == <<>>

BROKEN_CHAIN_KEYWORDS ==
    << <<"a","l","e","p","h"," ","z","e","r","o">>,
       <<"a","l","e","p","h","z","e","r","o">>,
       <<"q","u","a","r","t","z">>,
       <<"i","n","v","a","r","c","h">>,
       <<"e","x","o","s","a","m","a">>,
       <<"d","e","e","p","b","r","a","i","n">> >>

EXCLUDED_CHAIN_IDS ==
    { "70255b4d28de0fc4e1a193d7e175ad1ccef431598211c55538f1018651a0344e",
      "cd4d732201ebe5d6b014edda071c4203e16867305332f43c2e25ae6c9a1b7e6f",
      "31a7d8914fb31c249b972f18c115f1e22b4b039abbcb03c73b6774c5642f9efe",
      "eip155:41455",
      "86e49c195aeae7c5c4a86ced251f1a28c67b3c35d8289c387ede1776cdd88b24",
      "03aa6b475a03f8baf7f83e448513b00eaab03aefa4ed64bd1d31160dce028add",
      "eip155:2109" }

-----------------------------------------------------------------------------
(* merge-chains.py: is_chain_excluded *)

\* the `for keyword in BROKEN_CHAIN_KEYWORDS` loop, from list index i on
RECURSIVE KeywordLoop(_, _)
KeywordLoop(name_lower, i) ==
    IF i > Len(BROKEN_CHAIN_KEYWORDS)
    THEN [excluded |-> FALSE, reason |-> S_empty]
    ELSE IF StrIn(BROKEN_CHAIN_KEYWORDS[i], name_lower)
         THEN [excluded |-> TRUE,
               reason |-> S_brokenOpen \o BROKEN_CHAIN_KEYWORDS[i] \o S_close]
         ELSE KeywordLoop(name_lower, i + 1)

\* is_chain_excluded without the pezkuwi/zagros exemption of the testnet rule
is_chain_excluded_no_override(c) ==
    LET chain_id == Get(c, "chainId", "")
        name == Get(c, "name", S_empty)
        options == Get(c, "options", <<>>)
    IN  IF chain_id \in EXCLUDED_CHAIN_IDS
        THEN [excluded |-> TRUE, reason |-> S_brokenRPC]
        ELSE IF StrIn(S_PAUSED, name)
        THEN [excluded |-> TRUE, reason |-> S_PAUSED]
        ELSE IF ListIn("testnet", options)
        THEN [excluded |-> TRUE, reason |-> S_testnet]
        ELSE KeywordLoop(lower(name), 1)

is_chain_excluded(c) ==
    LET chain_id == Get(c, "chainId", "")
        name == Get(c, "name", S_empty)
        options == Get(c, "options", <<>>)
    IN  IF chain_id \in EXCLUDED_CHAIN_IDS
        THEN [excluded |-> TRUE, reason |-> S_brokenRPC]
        ELSE IF StrIn(S_PAUSED, name)
        THEN [excluded |-> TRUE, reason |-> S_PAUSED]
        ELSE IF /\ ListIn("testnet", options)
                /\ ~StrIn(S_pezkuwi, lower(name))
                /\ ~StrIn(S_zagros, lower(name))
        THEN [excluded |-> TRUE, reason |-> S_testnet]
        ELSE KeywordLoop(lower(name), 1)

-----------------------------------------------------------------------------
(* Inputs of the is_chain_excluded check *)

N_Polkadot == <<"P","o","l","k","a","d","o","t">>
N_BetaPAUSED == <<"B","e","t","a"," ","P","A","U","S","E","D">>
N_paused == <<"G","a","m","m","a"," ","p","a","u","s","e","d">>
N_Quartz == <<"Q","u","a","r","t","z">>
N_QuartzAlephZero == <<"Q","U","A","R","T","Z"," ","o","n"," ","A","l","e","p","h"," ","Z","e","r","o">>
N_InvArchPAUSED == <<"I","n","v","A","r","c","h"," ","P","A","U","S","E","D">>
N_Pezkuwi == <<"P","e","z","k","u","w","i">>
N_ZagrosQuartz == <<"Z","A","G","R","O","S"," ","q","u","a","r","t","z">>
N_Exosama == <<"E","x","o","s","a","m","a">>
N_AlephZ == <<"A","l","e","p","h","Z">>

ClassifyNames ==
    { N_Polkadot, N_BetaPAUSED, N_paused, N_Quartz, N_QuartzAlephZero,
      N_InvArchPAUSED, N_Pezkuwi, N_ZagrosQuartz, N_Exosama, N_AlephZ }

ClassifyIds == { "dot", "eip155:2109", "eip155:41455" }

ClassifyOptions == { <<>>, <<"testnet">>, <<"fullSyncByDefault", "testnet">>, <<"ethereumBased">> }

\* a dict with the keys of `keys`; fields the filter never reads ("icon") included
MkEntry(keys, id, name, options) ==
    [k \in keys |->
        CASE k = "chainId" -> id
          [] k = "name" -> name
          [] k = "options" -> options
          [] OTHER -> <<"i","c","o","n">>]

ClassifyKeySets ==
    { {"chainId", "name", "options"}, {"chainId", "name", "options", "icon"},
      {"chainId", "name"}, {"chainId", "options"}, {"name", "options"}, {"chainId"} }

ClassifyEntries ==
    { MkEntry(ks, id, n, o) :
        ks \in ClassifyKeySets, id \in ClassifyIds, n \in ClassifyNames, o \in ClassifyOptions }

NoVerdict == [excluded |-> FALSE, reason |-> <<"?">>]

ClassifyIdle == chain = [k \in {} |-> 0] /\ verdict = NoVerdict

-----------------------------------------------------------------------------
(* Python dict helpers *)

EmptyDict == <<>>

\* d[key] = value on a copy
Put(d, key, value) == [k \in DOMAIN d \cup {key} |-> IF k = key THEN value ELSE d[k]]

\* {**b, **a}: the base value wins on a shared key
DictMerge_base_wins(a, b) == [k \in DOMAIN a \cup DOMAIN b |-> IF k \in DOMAIN a THEN a[k] ELSE b[k]]

\* {**a, **b}
DictMerge(a, b) == [k \in DOMAIN a \cup DOMAIN b |-> IF k \in DOMAIN b THEN b[k] ELSE a[k]]

\* {c['chainId'] for c in chains}
ChainIdSet(chains) == { chains[i]["chainId"] : i \in 1..Len(chains) }

-----------------------------------------------------------------------------
(* sync_from_nova.py: merge_chains *)

\* merge_chains returning the base entries before the overlay
sync_merge_chains_base_first(nova, pezkuwi) ==
    LET pezkuwi_ids == ChainIdSet(pezkuwi)
        keep(c) == c["chainId"] \notin pezkuwi_ids
    IN  SelectSeq(nova, keep) \o pezkuwi

sync_merge_chains(nova, pezkuwi) ==
    LET pezkuwi_ids == ChainIdSet(pezkuwi)
        keep(c) == c["chainId"] \notin pezkuwi_ids
        nova_filtered == SelectSeq(nova, keep)
    IN  pezkuwi \o nova_filtered

-----------------------------------------------------------------------------
(* sync_from_nova.py: merge_xcm *)

MapSections == {"assetsLocation", "networkDeliveryFee", "networkBaseWeight"}

\* merge_xcm writing a value-map section only when an input defines it
merge_xcm_omit_absent(nova, pezkuwi) ==
    LET both(sec) == DictMerge(Get(nova, sec, EmptyDict), Get(pezkuwi, sec, EmptyDict))
        present == { sec \in MapSections : sec \in DOMAIN nova \cup DOMAIN pezkuwi }
                   \cup { sec \in {"instructions"} : sec \in DOMAIN nova }
                   \cup {"chains"}
        ids == ChainIdSet(Get(pezkuwi, "chains", <<>>))
        keep(c) == c["chainId"] \notin ids
    IN  [ sec \in present |->
            CASE sec = "chains" ->
                    Get(pezkuwi, "chains", <<>>) \o SelectSeq(Get(nova, "chains", <<>>), keep)
              [] sec = "instructions" -> nova["instructions"]
              [] OTHER -> both(sec) ]

merge_xcm(nova, pezkuwi) ==
    LET m0 == EmptyDict
        m1 == Put(m0, "assetsLocation",
                  DictMerge(Get(nova, "assetsLocation", EmptyDict),
                            Get(pezkuwi, "assetsLocation", EmptyDict)))
        m2 == IF "instructions" \in DOMAIN nova
              THEN Put(m1, "instructions", nova["instructions"])
              ELSE m1
        m3 == Put(m2, "networkDeliveryFee",
                  DictMerge(Get(nova, "networkDeliveryFee", EmptyDict),
                            Get(pezkuwi, "networkDeliveryFee", EmptyDict)))
        m4 == Put(m3, "networkBaseWeight",
                  DictMerge(Get(nova, "networkBaseWeight", EmptyDict),
                            Get(pezkuwi, "networkBaseWeight", EmptyDict)))
        pezkuwi_chain_ids == ChainIdSet(Get(pezkuwi, "chains", <<>>))
        keep(c) == c["chainId"] \notin pezkuwi_chain_ids
        nova_chains_filtered == SelectSeq(Get(nova, "chains", <<>>), keep)
    IN  Put(m4, "chains", Get(pezkuwi, "chains", <<>>) \o nova_chains_filtered)

-----------------------------------------------------------------------------
(* merge-chains.py: merge_chains *)

InitStats(nova, pezkuwi) ==
    [ pezkuwi |-> Len(pezkuwi),
      nova_total |-> Len(nova),
      nova_included |-> 0,
      excluded_paused |-> 0,
      excluded_testnet |-> 0,
      excluded_broken |-> 0,
      excluded_duplicate |-> 0 ]

\* the bookkeeping of one excluded chain (the if/elif/else on `reason`)
CountExcluded(stats, reason) ==
    IF StrIn(S_PAUSED, reason)
    THEN [stats EXCEPT !.excluded_paused = @ + 1]
    ELSE IF StrIn(S_testnet, reason)
    THEN [stats EXCEPT !.excluded_testnet = @ + 1]
    ELSE [stats EXCEPT !.excluded_broken = @ + 1]

\* the loop body classifying a chain before looking for its id in the overlay
LoopBody_classify_first(acc, c, pezkuwi_chain_ids, filter) ==
    LET chain_id == Get(c, "chainId", "")
        v == is_chain_excluded(c)
    IN  IF filter /\ v.excluded
        THEN [acc EXCEPT
                !.excluded_chains = Append(@, <<Get(c, "name", S_Unknown), v.reason>>),
                !.stats = CountExcluded(@, v.reason)]
        ELSE IF chain_id \in pezkuwi_chain_ids
        THEN [acc EXCEPT !.stats.excluded_duplicate = @ + 1]
        ELSE [acc EXCEPT
                !.nova_filtered = Append(@, c),
                !.stats.nova_included = @ + 1]

\* one iteration of `for chain in nova_chains` on the loop state
\* acc = [stats, nova_filtered, excluded_chains]
LoopBody(acc, c, pezkuwi_chain_ids, filter) ==
    LET chain_id == Get(c, "chainId", "")
        v == is_chain_excluded(c)
    IN  IF chain_id \in pezkuwi_chain_ids
        THEN [acc EXCEPT !.stats.excluded_duplicate = @ + 1]
        ELSE IF filter /\ v.excluded
        THEN [acc EXCEPT
                !.excluded_chains = Append(@, <<Get(c, "name", S_Unknown), v.reason>>),
                !.stats = CountExcluded(@, v.reason)]
        ELSE [acc EXCEPT
                !.nova_filtered = Append(@, c),
                !.stats.nova_included = @ + 1]

RECURSIVE MergeLoop(_, _, _, _, _)
MergeLoop(acc, nova, i, pezkuwi_chain_ids, filter) ==
    IF i > Len(nova)
    THEN acc
    ELSE MergeLoop(LoopBody(acc, nova[i], pezkuwi_chain_ids, filter),
                   nova, i + 1, pezkuwi_chain_ids, filter)

\* merge_chains applying the exclusion filter to the overlay as well
merge_chains_filter_overlay(nova, pezkuwi, filter) ==
    LET pezkuwi_chain_ids == ChainIdSet(pezkuwi)
        acc0 == [ stats |-> InitStats(nova, pezkuwi),
                  nova_filtered |-> <<>>,
                  excluded_chains |-> <<>> ]
        acc == MergeLoop(acc0, nova, 1, pezkuwi_chain_ids, filter)
        ok(c) == ~(filter /\ is_chain_excluded(c).excluded)
        merged == SelectSeq(pezkuwi, ok) \o acc.nova_filtered
    IN  [ merged |-> merged,
          stats |-> [ k \in DOMAIN acc.stats \cup {"total", "excluded_list"} |->
                        CASE k = "total" -> Len(merged)
                          [] k = "excluded_list" -> acc.excluded_chains
                          [] OTHER -> acc.stats[k] ] ]

merge_chains(nova, pezkuwi, filter) ==
    LET pezkuwi_chain_ids == ChainIdSet(pezkuwi)
        acc0 == [ stats |-> InitStats(nova, pezkuwi),
                  nova_filtered |-> <<>>,
                  excluded_chains |-> <<>> ]
        acc == MergeLoop(acc0, nova, 1, pezkuwi_chain_ids, filter)
        merged == pezkuwi \o acc.nova_filtered
    IN  [ merged |-> merged,
          stats |-> [ k \in DOMAIN acc.stats \cup {"total", "excluded_list"} |->
                        CASE k = "total" -> Len(merged)
                          [] k = "excluded_list" -> acc.excluded_chains
                          [] OTHER -> acc.stats[k] ] ]

-----------------------------------------------------------------------------
(* Inputs of the collection merge calls *)

MaxBase == 3
MaxOverlay == 2

E_pez == MkEntry({"chainId", "name", "options"}, "pezkuwi", N_Pezkuwi, <<"testnet">>)
E_dot == MkEntry({"chainId", "name", "options"}, "dot", N_Polkadot, <<>>)
E_dotPaused == MkEntry({"chainId", "name"}, "dot", N_BetaPAUSED, <<>>)
E_exo == MkEntry({"chainId", "name", "options"}, "eip155:2109", N_Exosama, <<>>)
E_quartzTest == MkEntry({"chainId", "name", "options"}, "ksm", N_Quartz, <<"testnet">>)
E_anon == MkEntry({"chainId"}, "anon", S_empty, <<>>)

MergeEntries == { E_pez, E_dot, E_dotPaused, E_exo, E_quartzTest, E_anon }

ListsUpTo(S, n) == UNION { [1..k -> S] : k \in 0..n }

NoStats == <<>>

MergeIdle ==
    /\ nova_chains = <<>>
    /\ pezkuwi_chains = <<>>
    /\ filter_broken = FALSE
    /\ call = "idle"
    /\ result = [merged |-> <<>>, stats |-> NoStats]

XcmIdle ==
    /\ nova_xcm = EmptyDict
    /\ pezkuwi_xcm = EmptyDict
    /\ merged_xcm = EmptyDict
    /\ xcm_pc = "idle"

-----------------------------------------------------------------------------
(* Specification of the is_chain_excluded calls *)

InitClassify ==
    /\ chain \in ClassifyEntries
    /\ verdict = NoVerdict
    /\ MergeIdle
    /\ XcmIdle
    /\ RunIdle

Classify ==
    /\ verdict = NoVerdict
    /\ verdict' = is_chain_excluded(chain)
    /\ UNCHANGED <<chain, mergeVars, xcmVars, runVars>>

NextClassify == Classify

SpecClassify == InitClassify /\ [][NextClassify]_vars

-----------------------------------------------------------------------------
(* Specification of the collection merge calls *)

InitMerge ==
    /\ nova_chains \in ListsUpTo(MergeEntries, MaxBase)
    /\ pezkuwi_chains \in ListsUpTo(MergeEntries, MaxOverlay)
    /\ filter_broken \in BOOLEAN
    /\ call = "none"
    /\ result = [merged |-> <<>>, stats |-> NoStats]
    /\ ClassifyIdle
    /\ XcmIdle
    /\ RunIdle

\* sync_from_nova.merge_chains(nova_chains, pezkuwi_chains)
CallSyncMergeChains ==
    /\ call = "none"
    /\ call' = "sync"
    /\ result' = [merged |-> sync_merge_chains(nova_chains, pezkuwi_chains), stats |-> NoStats]
    /\ UNCHANGED <<nova_chains, pezkuwi_chains, filter_broken, classifyVars, xcmVars, runVars>>

\* a document whose only section is `chains`; an empty list may also be absent
ChainsDocs(chains) ==
    { Put(EmptyDict, "chains", chains) } \cup (IF chains = <<>> THEN { EmptyDict } ELSE {})

\* the `chains` section of sync_from_nova.merge_xcm
CallMergeXcmChains ==
    /\ call = "none"
    /\ call' = "xcm"
    /\ \E a \in ChainsDocs(nova_chains), b \in ChainsDocs(pezkuwi_chains) :
          result' = [merged |-> merge_xcm(a, b)["chains"], stats |-> NoStats]
    /\ UNCHANGED <<nova_chains, pezkuwi_chains, filter_broken, classifyVars, xcmVars, runVars>>

\* merge-chains.merge_chains(nova_chains, pezkuwi_chains, filter_broken)
CallMergeChains ==
    /\ call = "none"
    /\ call' = "filtered"
    /\ result' = merge_chains(nova_chains, pezkuwi_chains, filter_broken)
    /\ UNCHANGED <<nova_chains, pezkuwi_chains, filter_broken, classifyVars, xcmVars, runVars>>

NextMerge == CallSyncMergeChains \/ CallMergeXcmChains \/ CallMergeChains

SpecMerge == InitMerge /\ [][NextMerge]_vars

-----------------------------------------------------------------------------
(* Properties of the collection merge *)

\* the entries of A whose chainId is not in ids, in A's order
RECURSIVE BaseKept(_, _)
BaseKept(A, ids) ==
    IF A = <<>>
    THEN <<>>
    ELSE (IF Head(A)["chainId"] \in ids THEN <<>> ELSE <<Head(A)>>) \o BaseKept(Tail(A), ids)

Unfiltered == call \in {"sync", "xcm"} \/ (call = "filtered" /\ ~filter_broken)

\* C1: every unfiltered collection merge (sync_from_nova.merge_chains, the chains
\* section of merge_xcm, merge-chains.merge_chains with filter_broken=False) returns
\* the overlay in its order followed by the base entries whose chainId is in no
\* overlay entry, in base order; with disjoint chainIds that is overlay ++ base, of
\* length len(base) + len(overlay).
C1_UnfilteredMerge ==
    Unfiltered =>
        /\ result.merged =
              pezkuwi_chains \o BaseKept(nova_chains, ChainIdSet(pezkuwi_chains))
        /\ (ChainIdSet(nova_chains) \cap ChainIdSet(pezkuwi_chains) = {}) =>
              /\ result.merged = pezkuwi_chains \o nova_chains
              /\ Len(result.merged) = Len(nova_chains) + Len(pezkuwi_chains)

\* an unfiltered merge-chains merge that dropped a base duplicate and kept a base
\* entry the exclusion filter would have removed
C1_Witness ==
    /\ call = "filtered" /\ ~filter_broken
    /\ Len(pezkuwi_chains) = 2
    /\ Len(nova_chains) = 3
    /\ Len(result.merged) = 4
    /\ nova_chains[3] = E_exo
    /\ result.merged[4] = E_exo

\* C2: with filter_broken=True the exclusion filter touches base entries only: the
\* whole overlay comes first in its order, excluded-looking entries included, and the
\* rest is exactly the base entries, in base order, whose chainId is not in the
\* overlay and which is_chain_excluded does not exclude.
C2_FilterBaseOnly ==
    (call = "filtered" /\ filter_broken) =>
        LET ids == ChainIdSet(pezkuwi_chains)
            kept(c) == c["chainId"] \notin ids /\ ~is_chain_excluded(c).excluded
        IN  /\ Len(result.merged) >= Len(pezkuwi_chains)
            /\ \A i \in 1..Len(pezkuwi_chains) : result.merged[i] = pezkuwi_chains[i]
            /\ result.merged = pezkuwi_chains \o SelectSeq(nova_chains, kept)

\* a filtered merge whose overlay holds an entry the filter would exclude, and whose
\* base lost one entry to the filter and kept another
C2_Witness ==
    /\ call = "filtered" /\ filter_broken
    /\ pezkuwi_chains = <<E_exo, E_pez>>
    /\ nova_chains = <<E_quartzTest, E_dot, E_exo>>
    /\ result.merged = <<E_exo, E_pez, E_dot>>

\* the (name, reason) pair reported for an excluded chain; a chain without a name
\* is reported as 'Unknown'
ExcludedPair(c) == <<Get(c, "name", S_Unknown), is_chain_excluded(c).reason>>

RECURSIVE PairsOf(_)
PairsOf(A) ==
    IF A = <<>> THEN <<>> ELSE <<ExcludedPair(Head(A))>> \o PairsOf(Tail(A))

\* how many entries of the sequence A satisfy Test
HowMany(A, Test(_)) == Cardinality({ i \in 1..Len(A) : Test(A[i]) })

IsPausedReason(pair) == StrIn(S_PAUSED, pair[2])
IsTestnetReason(pair) == ~StrIn(S_PAUSED, pair[2]) /\ StrIn(S_testnet, pair[2])
IsBrokenReason(pair) == ~StrIn(S_PAUSED, pair[2]) /\ ~StrIn(S_testnet, pair[2])

\* the counts of the stats agree with the excluded_list and with the inputs
CountsAgree ==
    LET stats == result.stats
        dup(c) == c["chainId"] \in ChainIdSet(pezkuwi_chains)
    IN  /\ stats.excluded_paused = HowMany(stats.excluded_list, IsPausedReason)
        /\ stats.excluded_testnet = HowMany(stats.excluded_list, IsTestnetReason)
        /\ stats.excluded_broken = HowMany(stats.excluded_list, IsBrokenReason)
        /\ stats.excluded_duplicate = HowMany(nova_chains, dup)
        /\ stats.pezkuwi = Len(pezkuwi_chains)
        /\ stats.nova_total = Len(nova_chains)
        /\ stats.total = Len(result.merged)
        /\ stats.nova_included = Len(result.merged) - Len(pezkuwi_chains)
        /\ stats.nova_total = stats.nova_included + stats.excluded_duplicate
                                + Len(stats.excluded_list)

\* C11 as stated: with filter_broken=True the stats hold counts by reason and an
\* excluded_list with one (name, reason) pair for every base entry that
\* is_chain_excluded classifies as excluded, in base order, with the reason
\* is_chain_excluded returned.
C11_EveryExcludedListed ==
    (call = "filtered" /\ filter_broken) =>
        LET excluded(c) == is_chain_excluded(c).excluded
        IN  /\ result.stats.excluded_list = PairsOf(SelectSeq(nova_chains, excluded))
            /\ CountsAgree

\* C11, amended: the duplicate test comes first, so the excluded_list holds one
\* (name, reason) pair, in base order, for every base entry whose chainId is in no
\* overlay entry and which is_chain_excluded classifies as excluded; a base entry
\* whose chainId is in the overlay is counted under excluded_duplicate only. The
\* counts by reason add up to the length of the list.
C11_NonDuplicateExcludedListed ==
    (call = "filtered" /\ filter_broken) =>
        LET ids == ChainIdSet(pezkuwi_chains)
            listed(c) == c["chainId"] \notin ids /\ is_chain_excluded(c).excluded
        IN  /\ result.stats.excluded_list = PairsOf(SelectSeq(nova_chains, listed))
            /\ CountsAgree

\* a filtered merge whose base holds a PAUSED chain under an overlay id, a testnet
\* and a chain of the excluded ids: the first is counted as a duplicate and not
\* listed, the other two are listed in base order
C11_Witness ==
    /\ call = "filtered" /\ filter_broken
    /\ pezkuwi_chains = <<E_dot>>
    /\ nova_chains = <<E_dotPaused, E_quartzTest, E_exo>>
    /\ Len(result.stats.excluded_list) = 2
    /\ result.stats.excluded_list[1] = ExcludedPair(E_quartzTest)
    /\ result.stats.excluded_list[2] = ExcludedPair(E_exo)
    /\ result.stats.excluded_duplicate = 1
    /\ result.stats.excluded_testnet = 1
    /\ result.stats.excluded_broken = 1

-----------------------------------------------------------------------------
(* Properties of is_chain_excluded *)

\* the indices of the keywords found in the lower-cased name
MatchingKeywords(c) ==
    { i \in 1..Len(BROKEN_CHAIN_KEYWORDS) :
        StrIn(BROKEN_CHAIN_KEYWORDS[i], lower(Get(c, "name", S_empty))) }

Min(S) == CHOOSE x \in S : \A y \in S : x <= y

SameFilterFields(a, b) ==
    \A k \in {"chainId", "name", "options"} :
        /\ (k \in DOMAIN a) = (k \in DOMAIN b)
        /\ k \in DOMAIN a => a[k] = b[k]

\* C3: the rules are tried in a fixed order and the first match gives the reason:
\* excluded id, then 'PAUSED' in the name, then a testnet option without a
\* pezkuwi/zagros name, then the first keyword (in list order) found in the
\* lower-cased name, else not excluded; and the verdict is a function of chainId,
\* name and options only.
C3_RuleOrder ==
    verdict # NoVerdict =>
        LET r1 == Get(chain, "chainId", "") \in EXCLUDED_CHAIN_IDS
            r2 == StrIn(S_PAUSED, Get(chain, "name", S_empty))
            r3 == /\ ListIn("testnet", Get(chain, "options", <<>>))
                  /\ ~StrIn(S_pezkuwi, lower(Get(chain, "name", S_empty)))
                  /\ ~StrIn(S_zagros, lower(Get(chain, "name", S_empty)))
            kw == MatchingKeywords(chain)
        IN  /\ r1 => verdict = [excluded |-> TRUE, reason |-> S_brokenRPC]
            /\ (~r1 /\ r2) => verdict = [excluded |-> TRUE, reason |-> S_PAUSED]
            /\ (~r1 /\ ~r2 /\ r3) => verdict = [excluded |-> TRUE, reason |-> S_testnet]
            /\ (~r1 /\ ~r2 /\ ~r3 /\ kw # {}) =>
                  verdict = [excluded |-> TRUE,
                             reason |-> S_brokenOpen \o BROKEN_CHAIN_KEYWORDS[Min(kw)] \o S_close]
            /\ (~r1 /\ ~r2 /\ ~r3 /\ kw = {}) =>
                  verdict = [excluded |-> FALSE, reason |-> S_empty]
            /\ \A e \in ClassifyEntries :
                  SameFilterFields(e, chain) => is_chain_excluded(e) = verdict

\* a name holding two keywords, the one later in the name being first in the list,
\* on a zagros testnet entry that rule 3 lets through
C3_Witness ==
    /\ Get(chain, "name", S_empty) = N_ZagrosQuartz
    /\ ListIn("testnet", Get(chain, "options", <<>>))
    /\ Get(chain, "chainId", "") = "dot"
    /\ "icon" \in DOMAIN chain
    /\ verdict.reason = S_brokenOpen \o BROKEN_CHAIN_KEYWORDS[3] \o S_close

-----------------------------------------------------------------------------
(* Specification of the merge_xcm calls *)

Sections == MapSections \cup {"instructions", "chains"}

\* the values of a value map are dicts themselves, tagged with their section
XcmValue(sec, tag) == Put(EmptyDict, tag, sec)

\* the shapes of a value map: which keys it has and which value each carries
MapShapes ==
    { EmptyDict,
      Put(EmptyDict, "k1", "a"),
      Put(EmptyDict, "k1", "b"),
      Put(EmptyDict, "k2", "a"),
      Put(Put(EmptyDict, "k1", "a"), "k2", "b") }

SectionMap(sec, shape) == [k \in DOMAIN shape |-> XcmValue(sec, shape[k])]

XcmChainLists == { <<E_dot>>, <<E_dotPaused, E_pez>> }

\* the section documents with the sections `present`
XcmDoc(present, shape, chains) ==
    [sec \in present |-> IF sec = "chains" THEN chains ELSE SectionMap(sec, shape)]

XcmDocs ==
    { XcmDoc(present, shape, chains) :
        present \in SUBSET Sections, shape \in MapShapes, chains \in XcmChainLists }

InitXcm ==
    /\ nova_xcm \in XcmDocs
    /\ pezkuwi_xcm \in XcmDocs
    /\ merged_xcm = EmptyDict
    /\ xcm_pc = "ready"
    /\ ClassifyIdle
    /\ MergeIdle
    /\ RunIdle

\* merged = merge_xcm(nova_data, overlay)
CallMergeXcm ==
    /\ xcm_pc = "ready"
    /\ xcm_pc' = "done"
    /\ merged_xcm' = merge_xcm(nova_xcm, pezkuwi_xcm)
    /\ UNCHANGED <<nova_xcm, pezkuwi_xcm, classifyVars, mergeVars, runVars>>

NextXcm == CallMergeXcm

SpecXcm == InitXcm /\ [][NextXcm]_vars

-----------------------------------------------------------------------------
(* Properties of merge_xcm *)

\* the keys an input document gives a section (none when the section is absent)
SectionKeys(doc, sec) == IF sec \in DOMAIN doc THEN DOMAIN doc[sec] ELSE {}

\* C4: each value-map section of the merged document has the union of the base
\* and overlay key sets; a shared key carries the overlay's value as it is (no
\* merge of the two values), any other key the value of the input that has it.
C4_ValueMapUnion ==
    xcm_pc = "done" =>
        \A sec \in MapSections :
            /\ sec \in DOMAIN merged_xcm
            /\ DOMAIN merged_xcm[sec] =
                  SectionKeys(nova_xcm, sec) \cup SectionKeys(pezkuwi_xcm, sec)
            /\ \A k \in SectionKeys(pezkuwi_xcm, sec) :
                  merged_xcm[sec][k] = pezkuwi_xcm[sec][k]
            /\ \A k \in SectionKeys(nova_xcm, sec) \ SectionKeys(pezkuwi_xcm, sec) :
                  merged_xcm[sec][k] = nova_xcm[sec][k]

\* a fee table with k1 in both inputs under different values and k2 in the base only
C4_Witness ==
    /\ xcm_pc = "done"
    /\ "networkDeliveryFee" \in DOMAIN nova_xcm \cap DOMAIN pezkuwi_xcm
    /\ DOMAIN nova_xcm["networkDeliveryFee"] = {"k1", "k2"}
    /\ DOMAIN pezkuwi_xcm["networkDeliveryFee"] = {"k1"}
    /\ nova_xcm["networkDeliveryFee"]["k1"] # pezkuwi_xcm["networkDeliveryFee"]["k1"]
    /\ DOMAIN merged_xcm["networkDeliveryFee"]["k1"] = {"b"}

C6_InstructionsOverlayMerged ==
    (xcm_pc = "done" /\ "instructions" \in DOMAIN nova_xcm) =>
        /\ "instructions" \in DOMAIN merged_xcm
        /\ "instructions" \notin DOMAIN pezkuwi_xcm =>
              merged_xcm["instructions"] = nova_xcm["instructions"]
        /\ "instructions" \in DOMAIN pezkuwi_xcm =>
              /\ DOMAIN merged_xcm["instructions"] =
                    DOMAIN nova_xcm["instructions"] \cup DOMAIN pezkuwi_xcm["instructions"]
              /\ \A k \in DOMAIN pezkuwi_xcm["instructions"] :
                    merged_xcm["instructions"][k] = pezkuwi_xcm["instructions"][k]

-----------------------------------------------------------------------------
(* The file tree.  A path is the sequence of its components. *)

NOVA_BASE == <<"nova-base">>
PEZKUWI_OVERLAY == <<"pezkuwi-overlay">>
OUTPUT_CHAINS == <<"chains">>

\* a file holding JSON: absent, present and parsable, or present and not parsable
JsonFile(data) == [kind |-> "json", data |-> data]
AbsentFile == [kind |-> "absent", data |-> <<>>]
CorruptFile == [kind |-> "corrupt", data |-> <<>>]

NovaChainsPath(version) == NOVA_BASE \o <<"chains", version, "chains.json">>
NovaChainsDevPath(version) == NOVA_BASE \o <<"chains", version, "chains_dev.json">>
NovaRootChainsPath == NOVA_BASE \o <<"chains", "chains.json">>
PezkuwiChainsPath == PEZKUWI_OVERLAY \o <<"chains", "pezkuwi-chains.json">>
OutChainsPath(version) == OUTPUT_CHAINS \o <<version, "chains.json">>
OutChainsDevPath(version) == OUTPUT_CHAINS \o <<version, "chains_dev.json">>
OutRootChainsPath == OUTPUT_CHAINS \o <<"chains.json">>
OutAndroidPath(version) == OUTPUT_CHAINS \o <<version, "android", "chains.json">>

\* the version directories nova-base/chains/v*, in sorted order
NovaChainVersions == <<"v21", "v22">>
\* the values --version is drawn from: the default, another directory, no directory
VersionArgs == {"v22", "v21", "v20"}

Range(f) == { f[x] : x \in DOMAIN f }

ChainInputPaths ==
    { NovaChainsPath(v) : v \in VersionArgs } \cup { NovaChainsDevPath(v) : v \in Range(NovaChainVersions) }
        \cup { NovaRootChainsPath, PezkuwiChainsPath }

ChainOutputPaths ==
    { OutChainsPath(v) : v \in VersionArgs } \cup { OutAndroidPath(v) : v \in VersionArgs }
        \cup { OutChainsDevPath(v) : v \in Range(NovaChainVersions) } \cup { OutRootChainsPath }

\* what the chain files hold when they are present and parsable
ChainFileData(path) ==
    CASE path = NovaChainsPath("v21") -> <<E_dot, E_exo>>
      [] path = NovaChainsPath("v22") -> <<E_dot, E_quartzTest, E_pez>>
      [] path = NovaRootChainsPath -> <<E_dotPaused, E_anon>>
      [] path = NovaChainsDevPath("v21") -> <<E_anon>>
      [] path = NovaChainsDevPath("v22") -> <<E_anon, E_dot>>
      [] path = PezkuwiChainsPath -> <<E_pez>>
      [] OTHER -> <<>>

\* the state of a call: the file tree, whether an exception is propagating, and
\* the value returned
Call(f) == [fs |-> f, exc |-> FALSE, ret |-> FALSE]
Raise(st) == [st EXCEPT !.exc = TRUE]

\* path.exists()
Exists(st, group, path) == st.fs[group][path].kind # "absent"

\* save_json(path, data): raises when the destination cannot be written
save_json(st, group, path, data) ==
    IF st.exc THEN st
    ELSE IF path \in unwritable THEN Raise(st)
    ELSE [st EXCEPT !.fs[group][path] = JsonFile(data)]

-----------------------------------------------------------------------------
(* merge-chains.py: merge_version *)

\* merge_version without the fallback to the root-level file
BasePath_version_only(st, version) == NovaChainsPath(version)

\* the base file merge_version reads: the version's own, else the root-level one
BasePath(st, version) ==
    IF Exists(st, "chains", NovaChainsPath(version)) THEN NovaChainsPath(version)
    ELSE NovaRootChainsPath

\* merge_version without the save to the android directory
FanOut_no_android(st, version, merged) ==
    LET s1 == save_json(st, "chains", OutChainsPath(version), merged)
        s2 == save_json(s1, "chains", OutRootChainsPath, merged)
    IN  s2

\* the three saves of merge_version
FanOut(st, version, merged) ==
    LET s1 == save_json(st, "chains", OutChainsPath(version), merged)
        s2 == save_json(s1, "chains", OutRootChainsPath, merged)
        s3 == save_json(s2, "chains", OutAndroidPath(version), merged)
    IN  s3

merge_version(st, version, filter) ==
    LET nova_chains_path == BasePath(st, version)
        nova_file == st.fs["chains"][nova_chains_path]
        pezkuwi_file == st.fs["chains"][PezkuwiChainsPath]
        pezkuwi == IF pezkuwi_file.kind = "absent" THEN <<>> ELSE pezkuwi_file.data
        merged == merge_chains(nova_file.data, pezkuwi, filter).merged
        saved == FanOut(st, version, merged)
    IN  IF nova_file.kind = "absent" THEN [st EXCEPT !.ret = FALSE]
        ELSE IF nova_file.kind = "corrupt" THEN Raise(st)
        ELSE IF pezkuwi_file.kind = "corrupt" THEN Raise(st)
        ELSE IF saved.exc THEN saved
        ELSE [saved EXCEPT !.ret = TRUE]

-----------------------------------------------------------------------------
(* sync_from_nova.py: sync_chains *)

\* load a base list if it exists, merge the overlay into it and save the result
MergeInto(st, src, dst, pezkuwi) ==
    LET file == st.fs["chains"][src]
    IN  IF st.exc \/ file.kind = "absent" THEN st
        ELSE IF file.kind = "corrupt" THEN Raise(st)
        ELSE save_json(st, "chains", dst, sync_merge_chains(file.data, pezkuwi))

NovaPreConfiguredPath(version) == NOVA_BASE \o <<"chains", version, "preConfigured">>
OutPreConfiguredPath(version) == OUTPUT_CHAINS \o <<version, "preConfigured">>

\* shutil.rmtree of the old copy, if any, then shutil.copytree / shutil.copy
CopyBlob(st, src, dst) ==
    LET file == st.fs["blobs"][src]
    IN  IF st.exc \/ file.kind = "absent" THEN st
        ELSE IF dst \in unwritable THEN Raise(st)
        ELSE [st EXCEPT !.fs["blobs"][dst] = file]

\* the body of `for version_dir in sorted(NOVA_BASE.glob("chains/v*"))`
SyncChainsVersion(st, version, pezkuwi) ==
    LET s1 == MergeInto(st, NovaChainsPath(version), OutChainsPath(version), pezkuwi)
        s2 == MergeInto(s1, NovaChainsDevPath(version), OutChainsDevPath(version), pezkuwi)
        s3 == MergeInto(s2, NovaChainsPath(version), OutAndroidPath(version), pezkuwi)
        s4 == CopyBlob(s3, NovaPreConfiguredPath(version), OutPreConfiguredPath(version))
    IN  s4

RECURSIVE SyncChainsLoop(_, _, _)
SyncChainsLoop(st, i, pezkuwi) ==
    IF st.exc \/ i > Len(NovaChainVersions)
    THEN st
    ELSE SyncChainsLoop(SyncChainsVersion(st, NovaChainVersions[i], pezkuwi), i + 1, pezkuwi)

sync_chains(st) ==
    LET pezkuwi_file == st.fs["chains"][PezkuwiChainsPath]
    IN  IF pezkuwi_file.kind = "corrupt" THEN Raise(st)
        ELSE SyncChainsLoop(st, 1, IF pezkuwi_file.kind = "absent" THEN <<>> ELSE pezkuwi_file.data)

-----------------------------------------------------------------------------
(* sync_from_nova.py: sync_xcm *)

OUTPUT_XCM == <<"xcm">>
S_dynamic == <<"d","y","n","a","m","i","c">>
F_transfers == <<"t","r","a","n","s","f","e","r","s",".","j","s","o","n">>
F_transfers_dynamic ==
    <<"t","r","a","n","s","f","e","r","s","_","d","y","n","a","m","i","c",".","j","s","o","n">>

\* the JSON files of the version directory nova-base/xcm/v8, by file name
XcmVersion == "v8"
XcmFileNames == { "transfers.json", "transfers_dynamic.json" }
FileNameStr(filename) ==
    IF filename = "transfers_dynamic.json" THEN F_transfers_dynamic ELSE F_transfers

NovaXcmPath(filename) == NOVA_BASE \o <<"xcm", XcmVersion, filename>>
OutXcmPath(filename) == OUTPUT_XCM \o <<XcmVersion, filename>>
PezkuwiXcmPath == PEZKUWI_OVERLAY \o <<"xcm", "pezkuwi-xcm.json">>
PezkuwiXcmDynamicPath == PEZKUWI_OVERLAY \o <<"xcm", "pezkuwi-xcm-dynamic.json">>
NovaRootXcmPath == NOVA_BASE \o <<"xcm", "README.json">>
OutRootXcmPath == OUTPUT_XCM \o <<"README.json">>

\* the body of `for nova_file in version_dir.glob("*.json")`
SyncXcmFile(st, filename, overlay_static, overlay_dynamic) ==
    LET file == st.fs["xcm"][NovaXcmPath(filename)]
        overlay == IF StrIn(S_dynamic, FileNameStr(filename)) THEN overlay_dynamic ELSE overlay_static
    IN  IF st.exc \/ file.kind = "absent" THEN st
        ELSE IF file.kind = "corrupt" THEN Raise(st)
        ELSE save_json(st, "xcm", OutXcmPath(filename), merge_xcm(file.data, overlay))

RECURSIVE SyncXcmLoop(_, _, _, _, _)
SyncXcmLoop(st, order, i, overlay_static, overlay_dynamic) ==
    IF st.exc \/ i > Len(order)
    THEN st
    ELSE SyncXcmLoop(SyncXcmFile(st, order[i], overlay_static, overlay_dynamic),
                     order, i + 1, overlay_static, overlay_dynamic)

\* `order` is the order in which glob yields the files of the version directory
sync_xcm(st, order) ==
    LET static_file == st.fs["xcm"][PezkuwiXcmPath]
        dynamic_file == st.fs["xcm"][PezkuwiXcmDynamicPath]
        merged == SyncXcmLoop(st, order, 1, static_file.data, dynamic_file.data)
    IN  IF static_file.kind = "corrupt" \/ dynamic_file.kind = "corrupt" THEN Raise(st)
        ELSE CopyBlob(merged, NovaRootXcmPath, OutRootXcmPath)

-----------------------------------------------------------------------------
(* sync_from_nova.py: sync_icons *)

OUTPUT_ICONS == <<"icons">>

\* an icon tree maps the relative paths of its files to their contents
CopyInto(out, src, S) == [p \in DOMAIN out \cup S |-> IF p \in S THEN src[p] ELSE out[p]]

\* the base files the first pass copies: those inside a directory of
\* nova-base/icons (icon_dir.is_dir()) whose target does not exist
BaseCopyTargets(icons) ==
    { p \in DOMAIN icons.base : Len(p) > 1 /\ p \notin DOMAIN icons.out }

\* a second pass that, like the first, leaves existing targets alone
OverlayCopyTargets_if_absent(icons) == { p \in DOMAIN icons.overlay : p \notin DOMAIN icons.out }

\* the overlay files the second pass copies: all of them
OverlayCopyTargets(icons) == DOMAIN icons.overlay

\* a pass copying `targets` from `src`, in the order the directory walk yields
\* them: all are copied, or the copy to an unwritable target raises after some
\* of the others were made
CopyPass(st, src, targets) ==
    LET blocked == { p \in targets : OUTPUT_ICONS \o p \in unwritable }
    IN  IF st.exc THEN { st }
        ELSE IF blocked = {}
        THEN { [st EXCEPT !.fs["icons"].out = CopyInto(@, src, targets)] }
        ELSE { Raise([st EXCEPT !.fs["icons"].out = CopyInto(@, src, S)]) :
                 S \in SUBSET (targets \ blocked) }

BasePass(st) == CopyPass(st, st.fs["icons"].base, BaseCopyTargets(st.fs["icons"]))

OverlayPass(st) == CopyPass(st, st.fs["icons"].overlay, OverlayCopyTargets(st.fs["icons"]))

\* the outcomes of sync_icons
sync_icons(st) == UNION { OverlayPass(s1) : s1 \in BasePass(st) }

-----------------------------------------------------------------------------
(* sync_from_nova.py: merge_config and sync_config *)

OUTPUT_STAKING == <<"staking">>

\* a config value: a dict of strings or a string
DictVal(d) == [t |-> "dict", d |-> d, s |-> ""]
StrVal(x) == [t |-> "str", d |-> EmptyDict, s |-> x]

\* merged[key] for one key of the overlay
MergedValue(merged, key, value) ==
    IF key \in DOMAIN merged /\ merged[key].t = "dict" /\ value.t = "dict"
    THEN DictVal(DictMerge(merged[key].d, value.d))
    ELSE value

merge_config(nova_config, pezkuwi_overlay) ==
    [key \in DOMAIN nova_config \cup DOMAIN pezkuwi_overlay |->
        IF key \in DOMAIN pezkuwi_overlay
        THEN MergedValue(nova_config, key, pezkuwi_overlay[key])
        ELSE nova_config[key]]

Suffixes == <<"", "_dev">>
NovaStakingPath(suffix) ==
    NOVA_BASE \o <<"staking", IF suffix = "" THEN "global_config.json" ELSE "global_config_dev.json">>
NovaGlobalPath(suffix) ==
    NOVA_BASE \o <<"global", IF suffix = "" THEN "config.json" ELSE "config_dev.json">>
OutConfigPath(suffix) ==
    OUTPUT_STAKING \o <<IF suffix = "" THEN "global_config.json" ELSE "global_config_dev.json">>
ConfigOverlayPath == PEZKUWI_OVERLAY \o <<"config", "global_config_overlay.json">>
NovaValidatorsPath == NOVA_BASE \o <<"staking", "nova_validators.json">>
OutValidatorsPath == OUTPUT_STAKING \o <<"nova_validators.json">>
NovaValidatorsDirPath == NOVA_BASE \o <<"staking", "validators">>
OutValidatorsDirPath == OUTPUT_STAKING \o <<"validators">>

\* the body of `for suffix in ("", "_dev")`
SyncConfigSuffix(st, suffix, overlay) ==
    LET global_file == st.fs["cfg"][NovaGlobalPath(suffix)]
        staking_file == st.fs["cfg"][NovaStakingPath(suffix)]
        base0 == EmptyDict
        base1 == IF global_file.kind = "json" THEN DictMerge(base0, global_file.data) ELSE base0
        base2 == IF staking_file.kind = "json" THEN DictMerge(base1, staking_file.data) ELSE base1
    IN  IF st.exc THEN st
        ELSE IF global_file.kind = "corrupt" \/ staking_file.kind = "corrupt" THEN Raise(st)
        ELSE save_json(st, "cfg", OutConfigPath(suffix), merge_config(base2, overlay))

sync_config(st) ==
    LET overlay_file == st.fs["cfg"][ConfigOverlayPath]
        s1 == SyncConfigSuffix(st, Suffixes[1], overlay_file.data)
        s2 == SyncConfigSuffix(s1, Suffixes[2], overlay_file.data)
        s3 == CopyBlob(s2, NovaValidatorsPath, OutValidatorsPath)
        s4 == CopyBlob(s3, NovaValidatorsDirPath, OutValidatorsDirPath)
    IN  IF overlay_file.kind = "corrupt" THEN Raise(st) ELSE s4

-----------------------------------------------------------------------------
(* The trees a run starts from: every input present and parsable, every output *)
(* absent and writable, except for a bounded number of faults.                 *)

\* faults in a merge-chains run, and in a sync_from_nova run
MaxFaults == 3
MaxSyncFaults == 2

BaselineChains ==
    [p \in ChainInputPaths \cup ChainOutputPaths |->
        IF p \in ChainInputPaths \ {NovaChainsPath("v20")}
        THEN JsonFile(ChainFileData(p))
        ELSE AbsentFile]

XcmInputPaths == { NovaXcmPath(f) : f \in XcmFileNames } \cup { PezkuwiXcmPath, PezkuwiXcmDynamicPath }
XcmOutputPaths == { OutXcmPath(f) : f \in XcmFileNames }

XcmFileData(path) ==
    CASE path = NovaXcmPath("transfers.json") ->
            XcmDoc(Sections, Put(Put(EmptyDict, "k1", "a"), "k2", "b"), <<E_dot, E_pez>>)
      [] path = NovaXcmPath("transfers_dynamic.json") ->
            XcmDoc({"chains", "assetsLocation"}, Put(EmptyDict, "k1", "a"), <<E_dot>>)
      [] path = PezkuwiXcmPath ->
            XcmDoc(Sections, Put(EmptyDict, "k1", "b"), <<E_pez>>)
      [] path = PezkuwiXcmDynamicPath ->
            XcmDoc({"chains", "networkBaseWeight"}, Put(EmptyDict, "k2", "a"), <<E_pez, E_anon>>)

BaselineXcm ==
    [p \in XcmInputPaths \cup XcmOutputPaths |->
        IF p \in XcmInputPaths THEN JsonFile(XcmFileData(p)) ELSE AbsentFile]

CfgInputPaths ==
    { NovaStakingPath(x) : x \in Range(Suffixes) } \cup { NovaGlobalPath(x) : x \in Range(Suffixes) }
        \cup { ConfigOverlayPath }
CfgOutputPaths == { OutConfigPath(x) : x \in Range(Suffixes) }

CfgFileData(path) ==
    CASE path = ConfigOverlayPath ->
            [k \in {"stakingApiOverrides", "multisigsApiUrl"} |->
                IF k = "multisigsApiUrl" THEN StrVal("pezkuwi-multisig")
                ELSE DictVal(Put(Put(EmptyDict, "pez", "pezkuwi-pez"), "dot", "pezkuwi-dot"))]
      [] path \in { NovaGlobalPath(x) : x \in Range(Suffixes) } ->
            [k \in {"stakingApiOverrides", "multisigsApiUrl"} |->
                IF k = "multisigsApiUrl" THEN StrVal("nova-multisig")
                ELSE DictVal(Put(EmptyDict, "ksm", "global-ksm"))]
      [] OTHER ->
            [k \in {"stakingApiOverrides", "globalStakingApiUrl"} |->
                IF k = "globalStakingApiUrl" THEN StrVal("nova-staking")
                ELSE DictVal(Put(EmptyDict, "dot", "nova-dot"))]

BaselineCfg ==
    [p \in CfgInputPaths \cup CfgOutputPaths |->
        IF p \in CfgInputPaths THEN JsonFile(CfgFileData(p)) ELSE AbsentFile]

BlobInputPaths ==
    { NovaPreConfiguredPath(v) : v \in Range(NovaChainVersions) }
        \cup { NovaRootXcmPath, NovaValidatorsPath, NovaValidatorsDirPath }
BlobOutputPaths ==
    { OutPreConfiguredPath(v) : v \in Range(NovaChainVersions) }
        \cup { OutRootXcmPath, OutValidatorsPath, OutValidatorsDirPath }

BaselineBlobs ==
    [p \in BlobInputPaths \cup BlobOutputPaths |->
        IF p \in BlobInputPaths THEN [kind |-> "blob", data |-> p] ELSE AbsentFile]

IconFile(origin, rel) == [from |-> origin, rel |-> rel]
IconTree(origin, paths) == [p \in paths |-> IconFile(origin, p)]

BaselineIcons ==
    [ base |-> IconTree("nova", { <<"logo.svg">>, <<"chains", "dot.svg">>, <<"chains", "pez.svg">> }),
      overlay |-> IconTree("pezkuwi", { <<"chains", "pez.svg">>, <<"pezkuwi.svg">> }),
      out |-> IconTree("old", { <<"chains", "pez.svg">> }) ]

BaselineFs ==
    [ chains |-> BaselineChains,
      xcm |-> BaselineXcm,
      cfg |-> BaselineCfg,
      blobs |-> BaselineBlobs,
      icons |-> BaselineIcons,
      nova_base |-> TRUE ]

FileGroups == {"chains", "xcm", "cfg", "blobs"}

\* a fault: an input that is missing or does not parse, an output that cannot be written
McFaultSites ==
    ({ NovaChainsPath(v) : v \in Range(NovaChainVersions) } \cup { NovaRootChainsPath, PezkuwiChainsPath })
        \X {"absent", "corrupt"}
    \cup ({ OutChainsPath(v) : v \in VersionArgs } \cup { OutAndroidPath(v) : v \in VersionArgs }
            \cup { OutRootChainsPath }) \X {"unwritable"}

SyncOutputPaths ==
    { OutChainsPath(v) : v \in Range(NovaChainVersions) }
        \cup { OutAndroidPath(v) : v \in Range(NovaChainVersions) }
        \cup { OutChainsDevPath(v) : v \in Range(NovaChainVersions) }
        \cup XcmOutputPaths \cup CfgOutputPaths \cup BlobOutputPaths
        \cup { OUTPUT_ICONS \o p : p \in DOMAIN BaselineIcons.base \cup DOMAIN BaselineIcons.overlay }

SyncFaultSites ==
    (({ NovaChainsPath(v) : v \in Range(NovaChainVersions) }
        \cup { NovaChainsDevPath(v) : v \in Range(NovaChainVersions) }
        \cup { PezkuwiChainsPath } \cup XcmInputPaths \cup CfgInputPaths) \X {"absent", "corrupt"})
    \cup ((BlobInputPaths \cup { NOVA_BASE }) \X {"absent"})
    \cup (SyncOutputPaths \X {"unwritable"})

\* the sets of at most n faults, no path carrying two
RECURSIVE FaultSetsUpTo(_, _)
FaultSetsUpTo(sites, n) ==
    IF n = 0 THEN { {} }
    ELSE LET smaller == FaultSetsUpTo(sites, n - 1)
         IN  smaller \cup
             { F \cup {x} : F \in smaller,
                            x \in sites }

FaultSets(sites, n) ==
    { F \in FaultSetsUpTo(sites, n) : \A a, b \in F : a[1] = b[1] => a = b }

\* a missing nova-base directory has no file under it
Missing(path, F) ==
    \/ <<path, "absent">> \in F
    \/ <<NOVA_BASE, "absent">> \in F /\ Head(path) = Head(NOVA_BASE)

FaultyFile(file, path, F) ==
    IF Missing(path, F) THEN AbsentFile
    ELSE IF <<path, "corrupt">> \in F THEN CorruptFile
    ELSE file

ApplyFaults(f, F) ==
    [g \in DOMAIN f |->
        IF g \in FileGroups THEN [p \in DOMAIN f[g] |-> FaultyFile(f[g][p], p, F)]
        ELSE IF g = "icons" /\ <<NOVA_BASE, "absent">> \in F THEN [f[g] EXCEPT !.base = <<>>]
        ELSE IF g = "nova_base" THEN <<NOVA_BASE, "absent">> \notin F
        ELSE f[g]]

Unwritable(F) == { s[1] : s \in { t \in F : t[2] = "unwritable" } }

-----------------------------------------------------------------------------
(* merge-chains.py: main *)

InitMergeChainsRun ==
    /\ program = "merge-chains"
    /\ args \in [update : BOOLEAN, full : BOOLEAN, all : BOOLEAN, version : VersionArgs]
    /\ pc = "start"
    /\ \E F \in FaultSets(McFaultSites, MaxFaults) :
          /\ fs = ApplyFaults(BaselineFs, F)
          /\ unwritable = Unwritable(F)
    /\ todo = <<>>
    /\ last = NoCall
    /\ completed = {}
    /\ icons_out0 = <<>>

\* parse_args and the choice of the versions to merge
McStart ==
    /\ program = "merge-chains" /\ pc = "start"
    /\ pc' = IF args.update THEN "update" ELSE "merge"
    /\ todo' = IF args.all THEN <<"v21", "v22">> ELSE <<args.version>>
    /\ UNCHANGED <<program, args, fs, unwritable, last, completed, icons_out0>>
    /\ UNCHANGED <<classifyVars, mergeVars, xcmVars>>

\* update_nova_submodule: git either leaves nova-base as it is (nothing new, or a
\* failure, which is only printed) or checks out the upstream files
McUpdate ==
    /\ program = "merge-chains" /\ pc = "update"
    /\ pc' = "merge"
    /\ \/ fs' = fs
       \/ fs' = [fs EXCEPT !.chains =
                    [p \in DOMAIN @ |-> IF p \in ChainInputPaths \ {PezkuwiChainsPath}
                                        THEN BaselineChains[p] ELSE @[p]]]
    /\ UNCHANGED <<program, args, unwritable, todo, last, completed, icons_out0>>
    /\ UNCHANGED <<classifyVars, mergeVars, xcmVars>>

\* one merge_version(v, filter_broken) call of main
McMergeVersion ==
    /\ program = "merge-chains" /\ pc = "merge"
    /\ LET r == merge_version(Call(fs), Head(todo), ~args.full)
       IN  /\ fs' = r.fs
           /\ last' = [version |-> Head(todo), ret |-> r.ret, raised |-> r.exc]
           /\ completed' = IF r.exc THEN completed ELSE completed \cup {Head(todo)}
           /\ todo' = IF r.exc THEN todo ELSE Tail(todo)
           /\ pc' = IF r.exc THEN "crashed"
                    ELSE IF Tail(todo) = <<>> THEN "finish" ELSE "merge"
    /\ UNCHANGED <<program, args, unwritable, icons_out0>>
    /\ UNCHANGED <<classifyVars, mergeVars, xcmVars>>

\* the closing prints of main
McFinish ==
    /\ program = "merge-chains" /\ pc = "finish"
    /\ pc' = "done"
    /\ UNCHANGED <<program, args, fs, unwritable, todo, last, completed, icons_out0>>
    /\ UNCHANGED <<classifyVars, mergeVars, xcmVars>>

-----------------------------------------------------------------------------
(* sync_from_nova.py: main *)

InitSyncRun ==
    /\ program = "sync_from_nova"
    /\ args = NoArgs
    /\ pc = "start"
    /\ \E F \in FaultSets(SyncFaultSites, MaxSyncFaults) :
          /\ fs = ApplyFaults(BaselineFs, F)
          /\ unwritable = Unwritable(F)
    /\ todo = <<>>
    /\ last = NoCall
    /\ completed = {}
    /\ icons_out0 = <<>>

\* the step of main after `phase`; an exception ends the run
Step(phase, r, next) ==
    /\ fs' = r.fs
    /\ pc' = IF r.exc THEN "crashed" ELSE next
    /\ completed' = IF r.exc THEN completed ELSE completed \cup {phase}
    /\ UNCHANGED <<program, args, unwritable, todo, last, icons_out0>>
    /\ UNCHANGED <<classifyVars, mergeVars, xcmVars>>

\* `if not NOVA_BASE.exists(): return 1`
SyncStart ==
    /\ program = "sync_from_nova" /\ pc = "start"
    /\ pc' = IF fs["nova_base"] THEN "sync_chains" ELSE "exit1"
    /\ UNCHANGED <<program, args, fs, unwritable, todo, last, completed, icons_out0>>
    /\ UNCHANGED <<classifyVars, mergeVars, xcmVars>>

SyncChains ==
    /\ program = "sync_from_nova" /\ pc = "sync_chains"
    /\ Step("sync_chains", sync_chains(Call(fs)), "sync_xcm")

SyncXcm ==
    /\ program = "sync_from_nova" /\ pc = "sync_xcm"
    /\ \E order \in { <<"transfers.json", "transfers_dynamic.json">>,
                      <<"transfers_dynamic.json", "transfers.json">> } :
          Step("sync_xcm", sync_xcm(Call(fs), order), "sync_icons")

SyncIcons ==
    /\ program = "sync_from_nova" /\ pc = "sync_icons"
    /\ \E r \in sync_icons(Call(fs)) : Step("sync_icons", r, "sync_config")

SyncConfig ==
    /\ program = "sync_from_nova" /\ pc = "sync_config"
    /\ Step("sync_config", sync_config(Call(fs)), "done")

-----------------------------------------------------------------------------
(* Specification of the runs of the two scripts *)

InitRun ==
    /\ InitMergeChainsRun \/ InitSyncRun
    /\ ClassifyIdle
    /\ MergeIdle
    /\ XcmIdle

NextRun ==
    \/ McStart \/ McUpdate \/ McMergeVersion \/ McFinish
    \/ SyncStart \/ SyncChains \/ SyncXcm \/ SyncIcons \/ SyncConfig

SpecRun == InitRun /\ [][NextRun]_vars

-----------------------------------------------------------------------------
(* Specification of sync_icons over arbitrary icon trees *)

MaxUnwritableIcons == 1

IconPaths ==
    { <<"logo.svg">>, <<"chains", "dot.svg">>, <<"chains", "white", "dot.svg">>, <<"tokens", "pez.svg">> }

RECURSIVE SubsetsUpTo(_, _)
SubsetsUpTo(S, n) ==
    IF n = 0 THEN { {} }
    ELSE LET smaller == SubsetsUpTo(S, n - 1)
         IN  smaller \cup { T \cup {x} : T \in smaller, x \in S }

InitIcons ==
    /\ program = "sync_icons"
    /\ args = NoArgs
    /\ pc = "icons_base"
    /\ \E b \in SUBSET IconPaths, o \in SUBSET IconPaths, old \in SUBSET IconPaths :
          /\ fs = [BaselineFs EXCEPT !.icons = [ base |-> IconTree("nova", b),
                                                 overlay |-> IconTree("pezkuwi", o),
                                                 out |-> IconTree("old", old) ]]
          /\ icons_out0 = IconTree("old", old)
    /\ unwritable \in SubsetsUpTo({ OUTPUT_ICONS \o p : p \in IconPaths }, MaxUnwritableIcons)
    /\ todo = <<>>
    /\ last = NoCall
    /\ completed = {}
    /\ ClassifyIdle
    /\ MergeIdle
    /\ XcmIdle

\* the loop over nova-base/icons
IconsBasePass ==
    /\ program = "sync_icons" /\ pc = "icons_base"
    /\ \E r \in BasePass(Call(fs)) :
          /\ fs' = r.fs
          /\ pc' = IF r.exc THEN "crashed" ELSE "icons_overlay"
    /\ UNCHANGED <<program, args, unwritable, todo, last, completed, icons_out0>>
    /\ UNCHANGED <<classifyVars, mergeVars, xcmVars>>

\* the loop over pezkuwi-overlay/icons
IconsOverlayPass ==
    /\ program = "sync_icons" /\ pc = "icons_overlay"
    /\ \E r \in OverlayPass(Call(fs)) :
          /\ fs' = r.fs
          /\ pc' = IF r.exc THEN "crashed" ELSE "icons_done"
    /\ UNCHANGED <<program, args, unwritable, todo, last, completed, icons_out0>>
    /\ UNCHANGED <<classifyVars, mergeVars, xcmVars>>

NextIcons == IconsBasePass \/ IconsOverlayPass

SpecIcons == InitIcons /\ [][NextIcons]_vars

-----------------------------------------------------------------------------
(* Properties of the runs *)

\* the versions main hands to merge_version
RequestedVersions == IF args.all THEN {"v21", "v22"} ELSE {args.version}

\* the collection merge_version(version) merges from the files as they are
ExpectedMerge(f, version) ==
    LET own == f["chains"][NovaChainsPath(version)]
        chosen == IF own.kind # "absent" THEN own ELSE f["chains"][NovaRootChainsPath]
        overlay == f["chains"][PezkuwiChainsPath]
    IN  merge_chains(chosen.data, IF overlay.kind = "json" THEN overlay.data ELSE <<>>, ~args.full).merged

\* merge_version(version) finds a parsable base, no corrupt overlay and writable outputs
CanMerge(f, version) ==
    LET own == f["chains"][NovaChainsPath(version)]
        chosen == IF own.kind # "absent" THEN own ELSE f["chains"][NovaRootChainsPath]
    IN  /\ chosen.kind = "json"
        /\ f["chains"][PezkuwiChainsPath].kind # "corrupt"
        /\ {OutChainsPath(version), OutRootChainsPath, OutAndroidPath(version)} \cap unwritable = {}

NoBase(f, version) ==
    /\ f["chains"][NovaChainsPath(version)].kind = "absent"
    /\ f["chains"][NovaRootChainsPath].kind = "absent"

\* C7: merge_version(v) merges nova-base/chains/<v>/chains.json when it exists and
\* the root-level nova-base/chains/chains.json otherwise; with neither it writes
\* nothing, returns False and does not raise, and main goes on to the next version;
\* a missing overlay file counts as an empty overlay.
C7_MissingBaseFallback ==
    [][ (program = "merge-chains" /\ pc = "merge") =>
            LET v == Head(todo)
            IN  /\ NoBase(fs, v) =>
                      /\ fs' = fs
                      /\ last' = [version |-> v, ret |-> FALSE, raised |-> FALSE]
                      /\ todo' = Tail(todo)
                      /\ pc' = IF Tail(todo) = <<>> THEN "finish" ELSE "merge"
                /\ CanMerge(fs, v) =>
                      /\ last' = [version |-> v, ret |-> TRUE, raised |-> FALSE]
                      /\ fs'["chains"][OutChainsPath(v)] = JsonFile(ExpectedMerge(fs, v))
                      /\ todo' = Tail(todo)
                /\ pc' = "finish" => completed' = RequestedVersions
      ]_vars

\* an --all run where v21 has no base at either place: v21 is skipped, v22 merged
\* with the overlay file missing
C7_Witness ==
    /\ program = "merge-chains" /\ pc = "done" /\ args.all
    /\ NoBase(fs, "v21")
    /\ fs["chains"][PezkuwiChainsPath].kind = "absent"
    /\ fs["chains"][OutChainsPath("v21")].kind = "absent"
    /\ fs["chains"][OutChainsPath("v22")].kind = "json"
    /\ last = [version |-> "v22", ret |-> TRUE, raised |-> FALSE]

\* a sync_from_nova run has ended
SyncEnded == program = "sync_from_nova" /\ pc \in {"done", "crashed"}

Readable(file) == file.kind # "corrupt"

\* C8 as stated: when a sync_from_nova run ends, a failure (an input that does
\* not parse, a destination that cannot be written) has cost only its own
\* resource: every resource whose own inputs parse and whose destination is
\* writable has been written, and no output was made from a corrupt file.
C8_FailureIsolated ==
    SyncEnded =>
        /\ \A v \in Range(NovaChainVersions) :
              LET base == fs["chains"][NovaChainsPath(v)]
                  overlay == fs["chains"][PezkuwiChainsPath]
              IN  /\ (base.kind = "json" /\ Readable(overlay) /\ OutChainsPath(v) \notin unwritable) =>
                        fs["chains"][OutChainsPath(v)] =
                            JsonFile(sync_merge_chains(base.data, overlay.data))
                  /\ base.kind = "corrupt" => fs["chains"][OutChainsPath(v)].kind = "absent"
        /\ \A f \in XcmFileNames :
              (/\ fs["xcm"][NovaXcmPath(f)].kind = "json"
               /\ Readable(fs["xcm"][PezkuwiXcmPath])
               /\ Readable(fs["xcm"][PezkuwiXcmDynamicPath])
               /\ OutXcmPath(f) \notin unwritable) =>
                    fs["xcm"][OutXcmPath(f)].kind = "json"
        /\ \A p \in DOMAIN fs["icons"].overlay :
              OUTPUT_ICONS \o p \notin unwritable => 
                  /\ p \in DOMAIN fs["icons"].out
                  /\ fs["icons"].out[p] = fs["icons"].overlay[p]
        /\ \A x \in Range(Suffixes) :
              (/\ Readable(fs["cfg"][NovaGlobalPath(x)])
               /\ Readable(fs["cfg"][NovaStakingPath(x)])
               /\ Readable(fs["cfg"][ConfigOverlayPath])
               /\ OutConfigPath(x) \notin unwritable) =>
                    fs["cfg"][OutConfigPath(x)].kind = "json"

\* C9: the fan-out destinations hold one value: after merge_version(v) returned
\* True, chains/<v>/chains.json, chains/chains.json and chains/<v>/android/chains.json
\* all hold the collection merge_chains returned; after sync_chains, for every
\* version with a base chains.json, the android copy equals chains/<v>/chains.json.
C9_FanOutSameValue ==
    /\ (program = "merge-chains" /\ last.ret) =>
          LET merged == JsonFile(ExpectedMerge(fs, last.version))
          IN  /\ fs["chains"][OutChainsPath(last.version)] = merged
              /\ fs["chains"][OutRootChainsPath] = merged
              /\ fs["chains"][OutAndroidPath(last.version)] = merged
    /\ (program = "sync_from_nova" /\ "sync_chains" \in completed) =>
          \A v \in Range(NovaChainVersions) :
              fs["chains"][NovaChainsPath(v)].kind # "absent" =>
                  /\ fs["chains"][OutAndroidPath(v)].kind = "json"
                  /\ fs["chains"][OutAndroidPath(v)] = fs["chains"][OutChainsPath(v)]

\* an --all run that merged both versions: the root copy is v22's, the last written
C9_Witness ==
    /\ program = "merge-chains" /\ pc = "done" /\ args.all /\ ~args.full
    /\ last = [version |-> "v22", ret |-> TRUE, raised |-> FALSE]
    /\ fs["chains"][OutChainsPath("v21")].kind = "json"
    /\ fs["chains"][OutAndroidPath("v22")].data = <<E_pez, E_dot>>
    /\ fs["chains"][OutRootChainsPath] # fs["chains"][OutChainsPath("v21")]

-----------------------------------------------------------------------------
(* Properties of sync_icons *)

IconsAfterBasePass == program = "sync_icons" /\ pc \in {"icons_overlay"}
IconsAfterSync == program = "sync_icons" /\ pc = "icons_done"

InBaseDirectory(p) == Len(p) > 1

====
